---- MODULE Spec2Model ----
(***************************************************************************)
(* Coupon issuance backend (src/main.py, src/schemas.py).                  *)
(*                                                                         *)
(* POST /coupon (generate_coupon) takes the next value of the "coupon"     *)
(* counter with one atomic find_one_and_update, formats the code, inserts  *)
(* a Coupon document, renders the image and answers.  Requests run         *)
(* concurrently (one worker thread each); the two store round trips and    *)
(* the render call are the steps at which requests interleave.             *)
(***************************************************************************)
EXTENDS FiniteSets, Integers, Sequences, TLC

\* ---------------------------------------------------------------- bounds
NumClients == 2          \* requests that may be in flight at the same time
MaxRequests == 3         \* POST /coupon requests started in one behaviour
MaxFormatSeq == 60       \* small sequence values given to the formatter

Clients == 1..NumClients

\* Message str(e) of the exception the store driver raises when the server
\* cannot be reached; find_one_and_update and the insert raise the same one.
StoreErrors == {"ServerSelectionTimeoutError"}
\* Message of a non-HTTP exception raised while drawing the image.
RenderErrors == {"AttributeError"}

\* Sequence values given to the formatter when it is checked on its own.
BigSeqs == {99999, 100000, 999999, 1000000, 1000001, 12345678}
FormatInputs == (1..MaxFormatSeq) \cup BigSeqs

VARIABLES
    dbConfigured,   \* database.db is not None
    counters,       \* collection db["counters"]: set of [_id, value]
    coupons,        \* collection db["coupon"]: documents in insertion order
    pc,             \* per client: position of its request in generate_coupon
    after,          \* per client: number of responses delivered when it started
    seq,            \* per client: local seq of generate_coupon
    code,           \* per client: local code of generate_coupon
    nSeq,           \* per client: calls of find_one_and_update by this request
    nIns,           \* per client: inserts attempted by this request
    nRen,           \* per client: calls of _build_coupon_image by this request
    started,        \* number of requests started so far
    returned,       \* values returned by _get_next_sequence, in order
    history,        \* finished requests with their responses, in order
    fmtLog          \* the last two (value, code) pairs formatted on their own

vars == <<dbConfigured, counters, coupons, pc, after, seq, code,
          nSeq, nIns, nRen, started, returned, history, fmtLog>>

reqVars == <<dbConfigured, counters, coupons, pc, after, seq, code,
             nSeq, nIns, nRen, started, returned, history>>

\* ------------------------------------------------------- code formatting
COUPON_PREFIX == <<"W", "B", "A", "U", "1", "0", "D", "I", "C", "-">>

PadWidth == 6

DigitChars == <<"0", "1", "2", "3", "4", "5", "6", "7", "8", "9">>

DigitChar(d) == DigitChars[d + 1]

RECURSIVE Digits(_)
\* decimal digits of a non-negative integer, most significant first
Digits(n) ==
    IF n < 10 THEN <<DigitChar(n)>>
    ELSE Digits(n \div 10) \o <<DigitChar(n % 10)>>

RECURSIVE Zeros(_)
Zeros(k) == IF k <= 0 THEN <<>> ELSE <<"0">> \o Zeros(k - 1)

ZeroPadTruncating(n, width) ==
    LET s == Digits(IF n < 0 THEN -n ELSE n)
        sign == IF n < 0 THEN <<"-">> ELSE <<>>
        t == sign \o Zeros(width - Len(s) - Len(sign)) \o s
    IN  IF Len(t) > width THEN SubSeq(t, Len(t) - width + 1, Len(t)) ELSE t

\* format(n, "0<width>d"): sign, then zeros up to the width, then the digits;
\* the width is a minimum, longer numbers are kept whole
ZeroPad(n, width) ==
    LET s == Digits(IF n < 0 THEN -n ELSE n)
        sign == IF n < 0 THEN <<"-">> ELSE <<>>
    IN  sign \o Zeros(width - Len(s) - Len(sign)) \o s

FormatCodeShortPad(n) == COUPON_PREFIX \o ZeroPad(n, PadWidth - 1)

\* code = f"{COUPON_PREFIX}{seq:06d}"
FormatCode(n) == COUPON_PREFIX \o ZeroPad(n, PadWidth)

\* --------------------------------------------------------------- schemas
CouponRedeemed(c) == [code |-> c, channel |-> "whatsapp", redeemed |-> TRUE]

\* Coupon(code=code): channel and redeemed take their defaults
Coupon(c) == [code |-> c, channel |-> "whatsapp", redeemed |-> FALSE]

\* ----------------------------------------------------------------- store
CounterDocs(name) == {d \in counters : d._id = name}

UpsertIncFromZero(name) ==
    IF CounterDocs(name) = {}
    THEN counters \cup {[_id |-> name, value |-> 0]}
    ELSE {IF d._id = name THEN [d EXCEPT !.value = @ + 1] ELSE d : d \in counters}

\* find_one_and_update({"_id": name}, {"$inc": {"value": 1}}, upsert=True):
\* one atomic step of the store; an absent document is created with the
\* increment applied to it
UpsertInc(name) ==
    IF CounterDocs(name) = {}
    THEN counters \cup {[_id |-> name, value |-> 1]}
    ELSE {IF d._id = name THEN [d EXCEPT !.value = @ + 1] ELSE d : d \in counters}

SeqValueBefore(doc) == IF doc.value - 1 = 0 THEN 1 ELSE doc.value - 1

\* value = doc.get("value") or 1; return int(value)
SeqValue(doc) == IF doc.value = 0 THEN 1 ELSE doc.value

\* insert of one document into the coupon collection
InsertOne(coll, doc) == Append(coll, doc)

\* ------------------------------------------------------------- responses
NoCode == <<>>

\* StreamingResponse(png, media_type="image/png", X-Coupon-Code: code)
ImageResponse(c) ==
    [status |-> 200, media |-> "image/png", key |-> "png", text |-> "png", code |-> c]

HttpErrorAsJson(st, detail) ==
    [status |-> 500, media |-> "application/json", key |-> "error",
     text |-> detail, code |-> NoCode]

\* raise HTTPException(status_code, detail): answered as {"detail": detail}
HttpError(st, detail) ==
    [status |-> st, media |-> "application/json", key |-> "detail",
     text |-> detail, code |-> NoCode]

\* JSONResponse(status_code=500, content={"error": str(e)})
JsonError(msg) ==
    [status |-> 500, media |-> "application/json", key |-> "error",
     text |-> msg, code |-> NoCode]

\* the finished request of client r, as it is appended to history
Finished(r, outcome, s, c, resp, ns, ni, nr) ==
    [after |-> after[r], outcome |-> outcome, seq |-> s,
     code |-> c, resp |-> resp, nSeq |-> ns, nIns |-> ni, nRen |-> nr]

\* ------------------------------------------------------------------ init
Init ==
    /\ dbConfigured \in BOOLEAN
    /\ counters = {}
    /\ coupons = <<>>
    /\ pc = [r \in Clients |-> "idle"]
    /\ after = [r \in Clients |-> 0]
    /\ seq = [r \in Clients |-> 0]
    /\ code = [r \in Clients |-> NoCode]
    /\ nSeq = [r \in Clients |-> 0]
    /\ nIns = [r \in Clients |-> 0]
    /\ nRen = [r \in Clients |-> 0]
    /\ started = 0
    /\ returned = <<>>
    /\ history = <<>>
    /\ fmtLog = <<>>

\* --------------------------------------------------------------- actions
\* a client sends POST /coupon: generate_coupon is entered
Request(r) ==
    /\ pc[r] = "idle"
    /\ started < MaxRequests
    /\ started' = started + 1
    /\ pc' = [pc EXCEPT ![r] = "START"]
    /\ after' = [after EXCEPT ![r] = Len(history)]
    /\ seq' = [seq EXCEPT ![r] = 0]
    /\ code' = [code EXCEPT ![r] = NoCode]
    /\ nSeq' = [nSeq EXCEPT ![r] = 0]
    /\ nIns' = [nIns EXCEPT ![r] = 0]
    /\ nRen' = [nRen EXCEPT ![r] = 0]
    /\ UNCHANGED <<dbConfigured, counters, coupons, returned, history, fmtLog>>

\* the request of client r ends with the given outcome and response
Finish(r, outcome, s, c, resp, ns, ni, nr) ==
    /\ history' = Append(history, Finished(r, outcome, s, c, resp, ns, ni, nr))
    /\ pc' = [pc EXCEPT ![r] = "idle"]
    /\ seq' = [seq EXCEPT ![r] = s]
    /\ code' = [code EXCEPT ![r] = c]
    /\ nSeq' = [nSeq EXCEPT ![r] = ns]
    /\ nIns' = [nIns EXCEPT ![r] = ni]
    /\ nRen' = [nRen EXCEPT ![r] = nr]
    /\ UNCHANGED <<after, started>>

\* _get_next_sequence with db None: HTTPException 500, re-raised by the handler
GetNextSequenceNotConfigured(r) ==
    /\ pc[r] = "START"
    /\ ~dbConfigured
    /\ Finish(r, "ConfigurationError", 0, NoCode,
              HttpError(500, "Database not configured"), 0, 0, 0)
    /\ UNCHANGED <<dbConfigured, counters, coupons, returned, fmtLog>>

GetNextSequenceUnreachableConsuming(r) ==
    /\ pc[r] = "START"
    /\ dbConfigured
    /\ counters' = UpsertInc("coupon")
    /\ \E msg \in StoreErrors :
          Finish(r, "StorageUnavailable", 0, NoCode, JsonError(msg), 1, 0, 0)
    /\ UNCHANGED <<dbConfigured, coupons, returned, fmtLog>>

\* find_one_and_update raises (store unreachable): caught by except Exception
GetNextSequenceUnreachable(r) ==
    /\ pc[r] = "START"
    /\ dbConfigured
    /\ \E msg \in StoreErrors :
          Finish(r, "StorageUnavailable", 0, NoCode, JsonError(msg), 1, 0, 0)
    /\ UNCHANGED <<dbConfigured, counters, coupons, returned, fmtLog>>

\* seq = _get_next_sequence("coupon"); code = f"{COUPON_PREFIX}{seq:06d}"
GetNextSequence(r) ==
    /\ pc[r] = "START"
    /\ dbConfigured
    /\ counters' = UpsertInc("coupon")
    /\ LET doc == CHOOSE d \in counters' : d._id = "coupon"
           value == SeqValue(doc)
       IN  /\ seq' = [seq EXCEPT ![r] = value]
           /\ code' = [code EXCEPT ![r] = FormatCode(value)]
           /\ returned' = Append(returned, value)
    /\ nSeq' = [nSeq EXCEPT ![r] = 1]
    /\ pc' = [pc EXCEPT ![r] = "SEQUENCED"]
    /\ UNCHANGED <<dbConfigured, coupons, after, nIns, nRen, started,
                   history, fmtLog>>

CreateDocumentFailRollback(r) ==
    /\ pc[r] = "SEQUENCED"
    /\ counters' = {IF d._id = "coupon" THEN [d EXCEPT !.value = @ - 1] ELSE d :
                        d \in counters}
    /\ \E msg \in StoreErrors :
          Finish(r, "PersistenceError", seq[r], code[r], JsonError(msg),
                 nSeq[r], 1, 0)
    /\ UNCHANGED <<dbConfigured, coupons, returned, fmtLog>>

CreateDocumentFailSwallowed(r) ==
    /\ pc[r] = "SEQUENCED"
    /\ nIns' = [nIns EXCEPT ![r] = 1]
    /\ pc' = [pc EXCEPT ![r] = "PERSISTED"]
    /\ UNCHANGED <<dbConfigured, counters, coupons, after, seq, code,
                   nSeq, nRen, started, returned, history, fmtLog>>

\* create_document raises: caught by except Exception, nothing was inserted
CreateDocumentFail(r) ==
    /\ pc[r] = "SEQUENCED"
    /\ \E msg \in StoreErrors :
          Finish(r, "PersistenceError", seq[r], code[r], JsonError(msg),
                 nSeq[r], 1, 0)
    /\ UNCHANGED <<dbConfigured, counters, coupons, returned, fmtLog>>

\* doc = Coupon(code=code); create_document("coupon", doc)
CreateDocument(r) ==
    /\ pc[r] = "SEQUENCED"
    /\ coupons' = InsertOne(coupons, Coupon(code[r]))
    /\ nIns' = [nIns EXCEPT ![r] = 1]
    /\ pc' = [pc EXCEPT ![r] = "PERSISTED"]
    /\ UNCHANGED <<dbConfigured, counters, after, seq, code, nSeq, nRen,
                   started, returned, history, fmtLog>>

BuildCouponImageUnavailableRollback(r) ==
    /\ pc[r] = "PERSISTED"
    /\ coupons' = SelectSeq(coupons, LAMBDA d : d.code # code[r])
    /\ Finish(r, "RenderUnavailable", seq[r], code[r],
              HttpError(503, "Image generator unavailable. Please try again later."),
              nSeq[r], nIns[r], 1)
    /\ UNCHANGED <<dbConfigured, counters, returned, fmtLog>>

\* _build_coupon_image cannot import PIL: HTTPException 503, re-raised
BuildCouponImageUnavailable(r) ==
    /\ pc[r] = "PERSISTED"
    /\ Finish(r, "RenderUnavailable", seq[r], code[r],
              HttpError(503, "Image generator unavailable. Please try again later."),
              nSeq[r], nIns[r], 1)
    /\ UNCHANGED <<dbConfigured, counters, coupons, returned, fmtLog>>

\* _build_coupon_image raises while drawing: caught by except Exception
BuildCouponImageError(r) ==
    /\ pc[r] = "PERSISTED"
    /\ \E msg \in RenderErrors :
          Finish(r, "RenderUnavailable", seq[r], code[r], JsonError(msg),
                 nSeq[r], nIns[r], 1)
    /\ UNCHANGED <<dbConfigured, counters, coupons, returned, fmtLog>>

\* png_bytes = _build_coupon_image(code); return StreamingResponse(...)
BuildCouponImage(r) ==
    /\ pc[r] = "PERSISTED"
    /\ Finish(r, "OK", seq[r], code[r], ImageResponse(code[r]),
              nSeq[r], nIns[r], 1)
    /\ UNCHANGED <<dbConfigured, counters, coupons, returned, fmtLog>>

Step(r) ==
    \/ GetNextSequenceNotConfigured(r)
    \/ GetNextSequenceUnreachable(r)
    \/ GetNextSequence(r)
    \/ CreateDocumentFail(r)
    \/ CreateDocument(r)
    \/ BuildCouponImageUnavailable(r)
    \/ BuildCouponImageError(r)
    \/ BuildCouponImage(r)

Next == \E r \in Clients : Request(r) \/ Step(r)

\* any number of requests in flight at the same time
Spec == Init /\ [][Next]_vars

\* ---------------------------------------------- requests one after another
NoneInFlight == \A q \in Clients : pc[q] = "idle"

RequestAlone(r) == NoneInFlight /\ Request(r)

NextSequential == \E r \in Clients : RequestAlone(r) \/ Step(r)

SpecSequential == Init /\ [][NextSequential]_vars

\* ------------------------------------------------- the formatter on its own
FormatOne(n) ==
    /\ fmtLog' = Append(IF Len(fmtLog) = 2 THEN Tail(fmtLog) ELSE fmtLog,
                        [n |-> n, code |-> FormatCode(n)])
    /\ UNCHANGED reqVars

NextFormat == \E n \in FormatInputs : FormatOne(n)

SpecFormat == Init /\ [][NextFormat]_vars

\* ------------------------------------------------ vocabulary of the claims
HistIdx == 1..Len(history)

\* number of Coupon documents in the store with code c
CountCode(c) == Cardinality({i \in 1..Len(coupons) : coupons[i].code = c})

\* value of the "coupon" counter document, 0 while it does not exist
CounterValue ==
    IF CounterDocs("coupon") = {} THEN 0
    ELSE (CHOOSE d \in counters : d._id = "coupon").value

IsDigit(c) == c \in {"0", "1", "2", "3", "4", "5", "6", "7", "8", "9"}

DigitOf(c) ==
    CASE c = "0" -> 0 [] c = "1" -> 1 [] c = "2" -> 2 [] c = "3" -> 3
      [] c = "4" -> 4 [] c = "5" -> 5 [] c = "6" -> 6 [] c = "7" -> 7
      [] c = "8" -> 8 [] c = "9" -> 9

RECURSIVE DecimalValue(_)
\* the number a string of decimal digits denotes
DecimalValue(s) ==
    IF s = <<>> THEN 0
    ELSE 10 * DecimalValue(SubSeq(s, 1, Len(s) - 1)) + DigitOf(s[Len(s)])

Suffix(c) == SubSeq(c, Len(COUPON_PREFIX) + 1, Len(c))

\* c is "WBAU10DIC-" followed by at least 6 decimal digits
WellFormed(c) ==
    /\ Len(c) >= 16
    /\ c[1] = "W" /\ c[2] = "B" /\ c[3] = "A" /\ c[4] = "U" /\ c[5] = "1"
    /\ c[6] = "0" /\ c[7] = "D" /\ c[8] = "I" /\ c[9] = "C" /\ c[10] = "-"
    /\ \A k \in 11..Len(c) : IsDigit(c[k])

\* the request got a sequence value (it went past _get_next_sequence)
Sequenced(h) == h.outcome \in {"OK", "PersistenceError", "RenderUnavailable"}

InFlightSequenced(r) == pc[r] \in {"SEQUENCED", "PERSISTED"}

Failures ==
    {"ConfigurationError", "StorageUnavailable", "PersistenceError", "RenderUnavailable"}

\* ------------------------------------------------------------------- C1
\* C1: the values returned by the successful _get_next_sequence("coupon")
\* calls made so far against the fresh store, in any interleaving, are
\* exactly 1..N for N calls: none twice, none skipped.
C1_ReturnedExactlyOneToN ==
    /\ {returned[i] : i \in 1..Len(returned)} = 1..Len(returned)
    /\ \A i, j \in 1..Len(returned) : i # j => returned[i] # returned[j]
    /\ \A r, q \in Clients :
          r # q /\ InFlightSequenced(r) /\ InFlightSequenced(q) => seq[r] # seq[q]

C1_Witness ==
    /\ Len(returned) = 3
    /\ \E r, q \in Clients : r # q /\ pc[r] = "SEQUENCED" /\ pc[q] = "SEQUENCED"

\* ------------------------------------------------------------------- C6
\* C6: the first successful _get_next_sequence call on a name without a
\* counter document returns 1, never 0 or an empty value, and when first
\* calls race exactly one of them gets 1.
C6_FirstCallReturnsOne ==
    /\ returned # <<>> => returned[1] = 1
    /\ Cardinality({i \in 1..Len(returned) : returned[i] = 1}) <= 1
    /\ \A i \in 1..Len(returned) : returned[i] >= 1
    /\ \A r \in Clients : InFlightSequenced(r) => seq[r] >= 1

C6_Witness ==
    /\ started = 2
    /\ history = <<>>
    /\ \E r, q \in Clients :
          /\ r # q
          /\ pc[r] = "SEQUENCED" /\ pc[q] = "SEQUENCED"
          /\ seq[r] = 1 /\ seq[q] = 2

\* ------------------------------------------------------------------- C2
\* C2: after a request whose insert failed with sequence value n, the
\* counter is not rolled back: it stays at n or above, the value handed out
\* next is n+1, and every request started after the failure that gets a
\* value gets one strictly greater than n.
C2_NoRollbackAfterPersistenceFailure ==
    \A i \in HistIdx :
        history[i].outcome = "PersistenceError" =>
            LET n == history[i].seq IN
            /\ n >= 1
            /\ CounterValue >= n
            /\ \A k \in 1..Len(returned) - 1 :
                  returned[k] = n => returned[k + 1] = n + 1
            /\ \A j \in HistIdx :
                  history[j].after >= i /\ Sequenced(history[j]) => history[j].seq > n
            /\ \A r \in Clients :
                  after[r] >= i /\ InFlightSequenced(r) => seq[r] > n

C2_Witness ==
    \E i, j \in HistIdx :
        /\ history[i].outcome = "PersistenceError"
        /\ history[j].outcome = "OK"
        /\ history[j].after >= i
        /\ history[j].seq = history[i].seq + 1

\* ------------------------------------------------------------------- C3
\* C3: once rendering failed for a persisted code, the store holds exactly
\* one Coupon document with that code in every later state, whatever
\* requests follow, and a request started after the failure gets a higher
\* sequence value and another code.
C3_RenderFailureKeepsOneRecord ==
    \A i \in HistIdx :
        history[i].outcome = "RenderUnavailable" =>
            /\ CountCode(history[i].code) = 1
            /\ \A j \in HistIdx :
                  history[j].after >= i /\ Sequenced(history[j]) =>
                      /\ history[j].seq > history[i].seq
                      /\ history[j].code # history[i].code
            /\ \A r \in Clients :
                  after[r] >= i /\ InFlightSequenced(r) =>
                      /\ seq[r] > history[i].seq
                      /\ code[r] # history[i].code

C3_Witness ==
    \E i, j \in HistIdx :
        /\ history[i].outcome = "RenderUnavailable"
        /\ history[j].after >= i
        /\ history[j].outcome \in {"OK", "RenderUnavailable"}
        /\ Len(coupons) >= 2

\* ------------------------------------------------------------------- C4
\* C4: rendering is started for a code only after its Coupon document was
\* inserted; a request whose insert failed never calls the renderer and
\* returns neither image nor code; every success response carries a code
\* that has a Coupon document in the store.
C4_PersistBeforeRender ==
    /\ \A r \in Clients : pc[r] = "PERSISTED" => CountCode(code[r]) >= 1
    /\ \A i \in HistIdx :
          /\ history[i].nRen > 0 =>
                history[i].nIns = 1 /\ CountCode(history[i].code) >= 1
          /\ history[i].outcome = "PersistenceError" =>
                /\ history[i].nRen = 0
                /\ history[i].resp.status # 200
                /\ history[i].resp.media # "image/png"
                /\ history[i].resp.code = NoCode
                /\ CountCode(history[i].code) = 0
          /\ history[i].resp.status = 200 =>
                /\ history[i].resp.code # NoCode
                /\ CountCode(history[i].resp.code) >= 1

C4_Witness ==
    \E i, j \in HistIdx :
        /\ history[i].outcome = "PersistenceError"
        /\ history[j].outcome = "OK"
        /\ history[j].resp.status = 200

\* ------------------------------------------------------------------- C5
\* C5: a request that fails inside _get_next_sequence (store unreachable or
\* db None) consumes nothing: counters, coupons and the values handed out
\* are unchanged by it, and its response carries no code and no image.
C5_FailedSequenceConsumesNothing ==
    [][\A r \in Clients :
          pc[r] = "START" /\ pc'[r] = "idle" =>
              /\ counters' = counters
              /\ coupons' = coupons
              /\ returned' = returned
              /\ Len(history') = Len(history) + 1
              /\ LET h == history'[Len(history')] IN
                    /\ h.outcome \in {"StorageUnavailable", "ConfigurationError"}
                    /\ h.seq = 0
                    /\ h.resp.status # 200
                    /\ h.resp.media # "image/png"
                    /\ h.resp.code = NoCode]_vars

C5_Witness ==
    /\ CounterValue >= 1
    /\ coupons # <<>>
    /\ \E i, j \in HistIdx :
          /\ j < i
          /\ history[j].outcome = "OK"
          /\ history[i].outcome = "StorageUnavailable"

\* ------------------------------------------------------------------- C7
\* C7: with requests run one after another from the fresh store and no
\* failed attempt, the k-th successful request returns the code of
\* sequence value k: WBAU10DIC-000001, WBAU10DIC-000002, WBAU10DIC-000003.
C7_SequentialCodes ==
    (\A i \in HistIdx : history[i].outcome = "OK") =>
        /\ \A k \in HistIdx :
              /\ history[k].seq = k
              /\ WellFormed(history[k].resp.code)
              /\ Len(history[k].resp.code) = 16
              /\ DecimalValue(Suffix(history[k].resp.code)) = k
        /\ Len(history) >= 1 => history[1].resp.code =
              <<"W", "B", "A", "U", "1", "0", "D", "I", "C", "-", "0", "0", "0", "0", "0", "1">>
        /\ Len(history) >= 2 => history[2].resp.code =
              <<"W", "B", "A", "U", "1", "0", "D", "I", "C", "-", "0", "0", "0", "0", "0", "2">>
        /\ Len(history) >= 3 => history[3].resp.code =
              <<"W", "B", "A", "U", "1", "0", "D", "I", "C", "-", "0", "0", "0", "0", "0", "3">>

C7_Witness ==
    /\ Len(history) = 3
    /\ \A i \in HistIdx : history[i].outcome = "OK"

\* ------------------------------------------------------------------- C8
\* C8: for n >= 1 the code is "WBAU10DIC-" followed by the decimal digits
\* of n, zero-padded on the left to at least 6 digits and never truncated
\* (7 gives WBAU10DIC-000007, 1000000 gives WBAU10DIC-1000000); distinct
\* values give distinct codes.
C8_CodeFormat ==
    /\ \A i \in 1..Len(fmtLog) :
          LET n == fmtLog[i].n
              c == fmtLog[i].code
          IN  /\ WellFormed(c)
              /\ DecimalValue(Suffix(c)) = n
              /\ Len(Suffix(c)) > 6 => Suffix(c)[1] # "0"
              /\ n < 1000000 <=> Len(Suffix(c)) = 6
              /\ n = 7 => c =
                    <<"W", "B", "A", "U", "1", "0", "D", "I", "C", "-", "0", "0", "0", "0", "0", "7">>
              /\ n = 1000000 => c =
                    <<"W", "B", "A", "U", "1", "0", "D", "I", "C", "-", "1", "0", "0", "0", "0", "0", "0">>
    /\ Len(fmtLog) = 2 /\ fmtLog[1].n # fmtLog[2].n => fmtLog[1].code # fmtLog[2].code

C8_Witness ==
    /\ Len(fmtLog) = 2
    /\ fmtLog[1].n = 7
    /\ fmtLog[2].n = 1000000

\* ------------------------------------------------------------------- C9
\* C9 as stated: every failed request ends in an error response, never a
\* success, with at most one counter increment and one insert, and the
\* responses of two different failure kinds always differ.
C9_Original ==
    /\ \A i \in HistIdx :
          /\ history[i].outcome \in Failures => history[i].resp.status # 200
          /\ history[i].nSeq <= 1 /\ history[i].nIns <= 1
    /\ \A i, j \in HistIdx :
          /\ history[i].outcome \in Failures
          /\ history[j].outcome \in Failures
          /\ history[i].outcome # history[j].outcome
          => history[i].resp # history[j].resp

\* C9 (amended): every failed request ends in an error response (500 or
\* 503, JSON, no code, no image), never a success, with at most one counter
\* increment, one insert and one render call.  ConfigurationError is
\* always 500 {"detail": "Database not configured"} and a missing renderer
\* is 503 {"detail": ...}; no other kind produces either of these.
\* StorageUnavailable, PersistenceError and a renderer that raises while
\* drawing all give 500 {"error": str(e)}, which need not differ between
\* the kinds.
C9_FailuresSurfaceAsErrors ==
    \A i \in HistIdx :
        LET h == history[i] IN
        /\ h.nSeq <= 1 /\ h.nIns <= 1 /\ h.nRen <= 1
        /\ h.outcome = "OK" <=> h.resp.status = 200
        /\ h.outcome \in Failures =>
              /\ h.resp.status \in {500, 503}
              /\ h.resp.media = "application/json"
              /\ h.resp.code = NoCode
        /\ h.outcome = "ConfigurationError" <=>
              /\ h.resp.status = 500
              /\ h.resp.key = "detail"
              /\ h.resp.text = "Database not configured"
        /\ h.resp.status = 503 =>
              /\ h.outcome = "RenderUnavailable"
              /\ h.resp.key = "detail"
        /\ h.outcome \in {"StorageUnavailable", "PersistenceError"} =>
              /\ h.resp.status = 500
              /\ h.resp.key = "error"
        /\ h.outcome = "RenderUnavailable" =>
              \/ h.resp.status = 503 /\ h.resp.key = "detail"
              \/ h.resp.status = 500 /\ h.resp.key = "error"

C9_Witness ==
    \E i, j, k \in HistIdx :
        /\ history[i].outcome = "StorageUnavailable"
        /\ history[j].outcome = "PersistenceError"
        /\ history[i].resp = history[j].resp
        /\ history[k].outcome = "RenderUnavailable"
        /\ history[k].resp.status = 503

\* ------------------------------------------------------------------ C10
\* C10: in every reachable state no two Coupon documents share a code,
\* every document's sequence number lies in 1..counter, there are at most
\* counter documents, each has channel "whatsapp" and redeemed = false; and
\* no step modifies or deletes a document.
C10_StoreInvariant ==
    /\ \A i, j \in 1..Len(coupons) : i # j => coupons[i].code # coupons[j].code
    /\ \A i \in 1..Len(coupons) :
          /\ WellFormed(coupons[i].code)
          /\ DecimalValue(Suffix(coupons[i].code)) \in 1..CounterValue
          /\ coupons[i].channel = "whatsapp"
          /\ coupons[i].redeemed = FALSE
    /\ Len(coupons) <= CounterValue

C10_CouponsKept ==
    /\ Len(coupons') >= Len(coupons)
    /\ \A i \in 1..Len(coupons) : coupons'[i] = coupons[i]

C10_CouponRecords == []C10_StoreInvariant /\ [][C10_CouponsKept]_vars

C10_Witness ==
    /\ Len(coupons) = 2
    /\ CounterValue = 3
    /\ \E i, j \in HistIdx :
          /\ history[i].outcome = "PersistenceError"
          /\ history[j].outcome = "RenderUnavailable"
    /\ \E r \in Clients : pc[r] = "PERSISTED"

====
